---- MODULE Spec2Model ----
(***************************************************************************)
(* httq: an HTTP gateway to MQTT brokers.  POST /{topic} publishes, GET    *)
(* /{topic} subscribes.  The model covers the request extractor            *)
(* (publish.rs, connect_info.rs, misc.rs), the payload codec               *)
(* (Message::payload), the two handlers of main.rs and the error to        *)
(* response mapping of error.rs.  The broker client (paho_mqtt) is the     *)
(* environment: each of its operations succeeds or fails                   *)
(* nondeterministically.                                                   *)
(*                                                                         *)
(* Text that the program converts (payload strings, topics) is a sequence  *)
(* of Unicode code points; bytes are sequences of 0..255.  Names that the  *)
(* program only compares (JSON keys, variant names, header names) are TLA+ *)
(* strings.                                                                *)
(***************************************************************************)
EXTENDS Integers, Sequences, FiniteSets, TLC

\* ------------------------------------------------------------------ bounds

\* Most Broker-Targets in one publish request of the session family.
MaxTargets == 2
\* Most messages in one Broker-Target of the session family.
MaxMsgs == 2

\* ------------------------------------------------------------ Option<T>

None == [some |-> FALSE]
Some(x) == [some |-> TRUE, v |-> x]

\* ---------------------------------------------------------------- text

\* String::into_bytes: the UTF-8 encoding of a sequence of code points.
Utf8Char(c) ==
    IF c < 128 THEN <<c>>
    ELSE IF c < 2048 THEN <<192 + (c \div 64), 128 + (c % 64)>>
    ELSE <<224 + (c \div 4096), 128 + ((c \div 64) % 64), 128 + (c % 64)>>

RECURSIVE Utf8(_)
Utf8(s) == IF s = <<>> THEN <<>> ELSE Utf8Char(Head(s)) \o Utf8(Tail(s))

\* Message::payload_str (String::from_utf8_lossy): the text of a byte
\* sequence, every byte that is not part of a well-formed one- or two-byte
\* sequence replaced by U+FFFD.
RECURSIVE Utf8Lossy(_)
Utf8Lossy(b) ==
    IF b = <<>> THEN <<>>
    ELSE IF b[1] < 128 THEN <<b[1]>> \o Utf8Lossy(Tail(b))
    ELSE IF /\ b[1] >= 194 /\ b[1] < 224 /\ Len(b) >= 2
            /\ b[2] >= 128 /\ b[2] < 192
         THEN <<(b[1] - 192) * 64 + (b[2] - 128)>> \o Utf8Lossy(Tail(Tail(b)))
    ELSE <<65533>> \o Utf8Lossy(Tail(b))

\* The decimal text of a natural number (serde_json's number formatting).
RECURSIVE Decimal(_)
Decimal(n) == IF n < 10 THEN <<48 + n>> ELSE Decimal(n \div 10) \o <<48 + (n % 10)>>

\* -------------------------------------------------------------- base64

\* The sextet of a character of the standard alphabet, -1 for any other.
B64Val(c) ==
    IF c >= 65 /\ c <= 90 THEN c - 65
    ELSE IF c >= 97 /\ c <= 122 THEN c - 71
    ELSE IF c >= 48 /\ c <= 57 THEN c + 4
    ELSE IF c = 43 THEN 62
    ELSE IF c = 47 THEN 63
    ELSE -1

B64Pad == 61

\* One group of four characters; last is TRUE for the final group, the only
\* one that may be padded.  Padding must be canonical and the unused low
\* bits zero (the STANDARD engine).
B64Quad(q, last) ==
    LET a == B64Val(q[1])
        b == B64Val(q[2])
        c == B64Val(q[3])
        d == B64Val(q[4])
    IN  IF a < 0 \/ b < 0 THEN None
        ELSE IF c >= 0 /\ d >= 0
             THEN Some(<<a * 4 + (b \div 16), (b % 16) * 16 + (c \div 4), (c % 4) * 64 + d>>)
        ELSE IF ~last THEN None
        ELSE IF c >= 0 /\ q[4] = B64Pad
             THEN IF c % 4 = 0
                  THEN Some(<<a * 4 + (b \div 16), (b % 16) * 16 + (c \div 4)>>)
                  ELSE None
        ELSE IF q[3] = B64Pad /\ q[4] = B64Pad
             THEN IF b % 16 = 0 THEN Some(<<a * 4 + (b \div 16)>>) ELSE None
        ELSE None

\* BASE64.decode(&d).ok()
RECURSIVE B64Decode(_)
B64Decode(s) ==
    IF s = <<>> THEN Some(<<>>)
    ELSE IF Len(s) < 4 THEN None
    ELSE LET q == B64Quad(SubSeq(s, 1, 4), Len(s) = 4)
             r == B64Decode(SubSeq(s, 5, Len(s)))
         IN  IF q.some /\ r.some THEN Some(q.v \o r.v) ELSE None

\* ---------------------------------------------------------------- JSON

\* serde_json::Value.  An object is a function from its keys to values.
JNull == [t |-> "null"]
JBool(b) == [t |-> "bool", b |-> b]
JNum(n) == [t |-> "num", n |-> n]
JStr(s) == [t |-> "str", s |-> s]
JArr(a) == [t |-> "arr", a |-> a]
JObj(f) == [t |-> "obj", f |-> f]

\* The keys an object payload may use, in the order of serde_json's map
\* (a BTreeMap: sorted by key), and their text.
JsonKeys == <<"door", "open">>
KeyText(k) ==
    CASE k = "door" -> <<100, 111, 111, 114>>
      [] k = "open" -> <<111, 112, 101, 110>>

HexDigit(n) == IF n < 10 THEN 48 + n ELSE 87 + n

\* One character of a string inside JSON text (serde_json's escapes).
JsonChar(c) ==
    IF c = 34 THEN <<92, 34>>
    ELSE IF c = 92 THEN <<92, 92>>
    ELSE IF c = 8 THEN <<92, 98>>
    ELSE IF c = 9 THEN <<92, 116>>
    ELSE IF c = 10 THEN <<92, 110>>
    ELSE IF c = 12 THEN <<92, 102>>
    ELSE IF c = 13 THEN <<92, 114>>
    ELSE IF c < 32 THEN <<92, 117, 48, 48, HexDigit(c \div 16), HexDigit(c % 16)>>
    ELSE <<c>>

RECURSIVE JsonChars(_)
JsonChars(s) == IF s = <<>> THEN <<>> ELSE JsonChar(Head(s)) \o JsonChars(Tail(s))

JsonQuoted(s) == <<34>> \o JsonChars(s) \o <<34>>

\* Value::to_string: the compact JSON text of a value.
RECURSIVE JsonText(_), JsonItems(_, _), JsonFields(_, _, _)
JsonText(v) ==
    CASE v.t = "null" -> <<110, 117, 108, 108>>
      [] v.t = "bool" -> IF v.b THEN <<116, 114, 117, 101>> ELSE <<102, 97, 108, 115, 101>>
      [] v.t = "num" -> IF v.n < 0 THEN <<45>> \o Decimal(0 - v.n) ELSE Decimal(v.n)
      [] v.t = "str" -> JsonQuoted(v.s)
      [] v.t = "arr" -> <<91>> \o JsonItems(v.a, 1) \o <<93>>
      [] v.t = "obj" -> <<123>> \o JsonFields(v.f, 1, TRUE) \o <<125>>

JsonItems(a, i) ==
    IF i > Len(a) THEN <<>>
    ELSE (IF i > 1 THEN <<44>> ELSE <<>>) \o JsonText(a[i]) \o JsonItems(a, i + 1)

JsonFields(f, i, first) ==
    IF i > Len(JsonKeys) THEN <<>>
    ELSE IF JsonKeys[i] \notin DOMAIN f THEN JsonFields(f, i + 1, first)
    ELSE (IF first THEN <<>> ELSE <<44>>)
         \o JsonQuoted(KeyText(JsonKeys[i])) \o <<58>> \o JsonText(f[JsonKeys[i]])
         \o JsonFields(f, i + 1, FALSE)

\* ------------------------------------------------------- message parsing

\* The names of TypedPayload's variants under rename_all = "camelCase".
TagString == <<115, 116, 114, 105, 110, 103>>
TagJson == <<106, 115, 111, 110>>
TagBase64 == <<98, 97, 115, 101, 54, 52>>
TagRaw == <<114, 97, 119>>

\* Vec<u8>::deserialize: a JSON array of numbers 0..255.
IsByteArray(v) ==
    /\ v.t = "arr"
    /\ \A i \in 1..Len(v.a) : v.a[i].t = "num" /\ v.a[i].n \in 0..255

RECURSIVE ByteArray(_)
ByteArray(a) == IF a = <<>> THEN <<>> ELSE <<Head(a).n>> \o ByteArray(Tail(a))

\* TypedPayload::deserialize (adjacently tagged: tag "payloadType", content
\* "payload") from the keys m of a message object.
TypedPayload(m) ==
    IF "payloadType" \notin DOMAIN m \/ "payload" \notin DOMAIN m THEN None
    ELSE LET tag == m["payloadType"]
             c == m["payload"]
         IN  IF tag.t # "str" THEN None
             ELSE IF tag.s = TagString
                  THEN IF c.t = "str" THEN Some([kind |-> "String", v |-> c.s]) ELSE None
             ELSE IF tag.s = TagJson THEN Some([kind |-> "Json", v |-> c])
             ELSE IF tag.s = TagBase64
                  THEN IF c.t = "str" THEN Some([kind |-> "Base64", v |-> c.s]) ELSE None
             ELSE IF tag.s = TagRaw
                  THEN IF IsByteArray(c) THEN Some([kind |-> "Raw", v |-> ByteArray(c.a)])
                       ELSE None
             ELSE None

\* PayloadOf without the Unspecified variant.
PayloadOf_TypedOnly(typed, m) == typed

\* Payload::deserialize (untagged), typed being TypedPayload's result:
\* Specified first, then Unspecified { payload }.
PayloadOf(typed, m) ==
    IF typed.some THEN typed
    ELSE IF "payload" \in DOMAIN m /\ m["payload"].t = "str"
         THEN Some([kind |-> "Unspecified", v |-> m["payload"].s])
    ELSE None

Payload(m) == PayloadOf(TypedPayload(m), m)

QOS_2 == 2

\* deserialize_qos with an out-of-range value clamped to the range.
deserialize_qos_Clamped(v) ==
    IF v.t # "num" THEN None
    ELSE IF v.n < 0 THEN Some(0)
    ELSE IF v.n > 2 THEN Some(2)
    ELSE Some(v.n)

\* Message::deserialize_qos.  The numbers of the model are integers that
\* fit an i32, so i32::deserialize fails on the other JSON types only.
deserialize_qos(v) ==
    IF v.t # "num" THEN None
    ELSE IF v.n >= 0 /\ v.n <= 2 THEN Some(v.n)
    ELSE None

\* Message::deserialize from a JSON value.  The flattened Option<Payload>
\* is None whenever Payload::deserialize fails on the remaining keys.
Message(v) ==
    IF v.t # "obj" THEN None
    ELSE LET m == v.f
             qos == IF "qos" \in DOMAIN m THEN deserialize_qos(m["qos"]) ELSE Some(QOS_2)
         IN  IF "topic" \notin DOMAIN m \/ ~qos.some THEN None
             ELSE IF m["topic"].t # "str" THEN None
             ELSE Some([topic |-> m["topic"].s, payload |-> Payload(m), qos |-> qos.v])

\* ---------------------------------------------------------- payload codec

\* Message::payload: the bytes to publish, or None.
payload(msg) ==
    IF ~msg.payload.some THEN Some(<<>>)
    ELSE LET p == msg.payload.v
         IN  CASE p.kind = "String" -> Some(Utf8(p.v))
               [] p.kind = "Json" -> Some(Utf8(JsonText(p.v)))
               [] p.kind = "Base64" -> B64Decode(p.v)
               [] p.kind = "Raw" -> Some(p.v)
               [] p.kind = "Unspecified" -> Some(Utf8(p.v))

\* ------------------------------------------------------------- broker URL

IsAlpha(c) == (c >= 97 /\ c <= 122) \/ (c >= 65 /\ c <= 90)
IsDigit(c) == c >= 48 /\ c <= 57
Lower(c) == IF c >= 65 /\ c <= 90 THEN c + 32 ELSE c

RECURSIVE LowerAll(_)
LowerAll(s) == IF s = <<>> THEN <<>> ELSE <<Lower(Head(s))>> \o LowerAll(Tail(s))

\* The first index >= i of s that holds a character of set cs, else Len(s) + 1.
RECURSIVE Find(_, _, _)
Find(s, cs, i) ==
    IF i > Len(s) THEN Len(s) + 1
    ELSE IF s[i] \in cs THEN i
    ELSE Find(s, cs, i + 1)

\* The index of the colon ending a scheme (ALPHA *(ALPHA / DIGIT / + / - / .)),
\* 0 when the input does not start with a scheme; e is its first colon.
SchemeEndAt(s, e) ==
    IF /\ e <= Len(s) /\ e > 1 /\ IsAlpha(s[1])
       /\ \A j \in 2..(e - 1) : IsAlpha(s[j]) \/ IsDigit(s[j]) \/ s[j] \in {43, 45, 46}
    THEN e ELSE 0

\* (CHOOSE x \in {F(v) : v \in {e}} : TRUE is F(e), with e computed once.)
SchemeEnd(s) == CHOOSE x \in {SchemeEndAt(s, e) : e \in {Find(s, {58}, 1)}} : TRUE

\* The schemes the URL standard calls special (they require a host).
SchemeWs == <<119, 115>>
SchemeWss == <<119, 115, 115>>
SchemeHttp == <<104, 116, 116, 112>>
SchemeHttps == <<104, 116, 116, 112, 115>>
SchemeFtp == <<102, 116, 112>>
IsSpecial(scheme) == scheme \in {SchemeWs, SchemeWss, SchemeHttp, SchemeHttps, SchemeFtp}

\* Code points a host may not hold: controls and space, and # % / : < > ? @ [ \ ] ^ |.
ForbiddenHost(c) == c <= 32 \/ c \in {35, 37, 47, 58, 60, 62, 63, 64, 91, 92, 93, 94, 124, 127}

RECURSIVE SkipSlashes(_)
SkipSlashes(s) == IF s # <<>> /\ Head(s) \in {47, 92} THEN SkipSlashes(Tail(s)) ELSE s

UrlErr(e) == [ok |-> FALSE, err |-> e]
UrlOk(u) == [ok |-> TRUE, url |-> u]

\* A host and a port: the serialized authority, or an error.
HostPort(host, port, special) ==
    IF \E j \in 1..Len(host) : ForbiddenHost(host[j]) THEN UrlErr("InvalidDomainCharacter")
    ELSE IF special /\ host = <<>> THEN UrlErr("EmptyHost")
    ELSE IF \E j \in 1..Len(port) : ~IsDigit(port[j]) THEN UrlErr("InvalidPort")
    ELSE UrlOk((IF special THEN LowerAll(host) ELSE host)
               \o (IF port = <<>> THEN <<>> ELSE <<58>> \o port))

\* host[:port], split at the colon at index c.
AuthorityAt(a, c, special) == HostPort(SubSeq(a, 1, c - 1), SubSeq(a, c + 1, Len(a)), special)
Authority(a, special) ==
    CHOOSE x \in {AuthorityAt(a, c, special) : c \in {Find(a, {58}, 1)}} : TRUE

\* scheme://authority/path: a special scheme gets the path / when it has none.
UrlJoin(scheme, special, a, path) ==
    IF ~a.ok THEN a
    ELSE UrlOk(scheme \o <<58, 47, 47>> \o a.url
               \o (IF special /\ path = <<>> THEN <<47>> ELSE path))

\* r is what follows the slashes; the authority ends at index p.
UrlHierAt(scheme, special, r, p) ==
    UrlJoin(scheme, special, Authority(SubSeq(r, 1, p - 1), special), SubSeq(r, p, Len(r)))
UrlHier(scheme, special, r) ==
    CHOOSE x \in {UrlHierAt(scheme, special, r, p) :
                    p \in {Find(r, IF special THEN {47, 92} ELSE {47}, 1)}} : TRUE

\* A URL with its scheme: with an authority for a special scheme and after
\* "//", else with an opaque path.
UrlWithScheme(scheme, rest) ==
    IF IsSpecial(scheme) THEN UrlHier(scheme, TRUE, SkipSlashes(rest))
    ELSE IF Len(rest) >= 2 /\ rest[1] = 47 /\ rest[2] = 47
         THEN UrlHier(scheme, FALSE, SubSeq(rest, 3, Len(rest)))
    ELSE UrlOk(scheme \o <<58>> \o rest)

UrlParseAt(s, e) ==
    IF e = 0 THEN UrlErr("RelativeUrlWithoutBase")
    ELSE UrlWithScheme(LowerAll(SubSeq(s, 1, e - 1)), SubSeq(s, e + 1, Len(s)))

\* str::parse::<Url>: the serialized URL of an input, or the parse error.
\* Inputs carry no userinfo, query or fragment.
UrlParse(s) == CHOOSE x \in {UrlParseAt(s, e) : e \in {SchemeEnd(s)}} : TRUE

TcpPrefix == <<116, 99, 112, 58, 47, 47>>

\* UrlOrDefault with the default scheme put before every input.
UrlOrDefault_AlwaysTcp(first, input) == UrlParse(TcpPrefix \o input)

\* The match of parse_url_with_default on the first parse.
UrlOrDefault(first, input) ==
    IF first.ok THEN first
    ELSE IF first.err = "RelativeUrlWithoutBase" THEN UrlParse(TcpPrefix \o input)
    ELSE first

\* parse_url_with_default
parse_url_with_default(input) ==
    CHOOSE x \in {UrlOrDefault(first, input) : first \in {UrlParse(input)}} : TRUE

\* --------------------------------------------------------- request parsing

\* The function f without the keys of ks.
Without(f, ks) == [x \in (DOMAIN f) \ ks |-> f[x]]

\* A sequence of options as the option of a sequence: None when any is None.
AllSome(os) ==
    CHOOSE x \in {IF \E j \in DOMAIN o : ~o[j].some THEN None
                   ELSE Some([j \in DOMAIN o |-> o[j].v]) : o \in {os}} : TRUE

\* Credentials with a password that defaults to the empty string.
Credentials_UsernameOnly(m) ==
    IF "username" \in DOMAIN m /\ m["username"].t = "str"
    THEN Some([username |-> m["username"].s,
               password |-> IF "password" \in DOMAIN m /\ m["password"].t = "str"
                            THEN m["password"].s ELSE <<>>])
    ELSE None

\* Option<Credentials>, flattened: Some only when username and password are
\* both present and both strings.
Credentials(m) ==
    IF /\ "username" \in DOMAIN m /\ "password" \in DOMAIN m
       /\ m["username"].t = "str" /\ m["password"].t = "str"
    THEN Some([username |-> m["username"].s, password |-> m["password"].s])
    ELSE None

\* Vec<Message>::deserialize
Messages(v) ==
    IF v.t # "arr" THEN None
    ELSE AllSome([j \in 1..Len(v.a) |-> Message(v.a[j])])

\* The first variant of MessageGroup that matched.
FirstVariant(flat, single, multiple) ==
    IF flat.some THEN Some([variant |-> "Flat", list |-> <<flat.v>>])
    ELSE IF single.some THEN Some([variant |-> "Single", list |-> <<single.v>>])
    ELSE IF multiple.some THEN Some([variant |-> "Multiple", list |-> multiple.v])
    ELSE None

\* MessageGroup without the variant Single.
MessageGroup_NoSingle(m) ==
    LET keys == (DOMAIN m) \cap {"messages", "message"}
    IN  FirstVariant(Message(JObj(m)), None,
                     IF Cardinality(keys) = 1 THEN Messages(m[CHOOSE x \in keys : TRUE])
                     ELSE None)

\* MessageGroup::deserialize (untagged): Flat, then Single { message }, then
\* Multiple { messages }, whose key has the alias "message" (both keys at
\* once are a duplicate field).
MessageGroup(m) ==
    LET keys == (DOMAIN m) \cap {"messages", "message"}
    IN  FirstVariant(Message(JObj(m)),
                     IF "message" \in DOMAIN m THEN Message(m["message"]) ELSE None,
                     IF Cardinality(keys) = 1 THEN Messages(m[CHOOSE x \in keys : TRUE])
                     ELSE None)

\* The keys of Broker::url: the field name and its aliases.
UrlKeys == {"url", "broker", "host", "hostname"}

\* Broker, once its fields are deserialized.
BrokerOf(url, credentials, group) ==
    IF ~url.ok \/ ~group.some THEN None
    ELSE Some([url |-> url.url, credentials |-> credentials, messages |-> group.v])

\* Broker::deserialize_url on u, the flattened fields on the other keys.
BrokerFields(u, rest) ==
    IF u.t # "str" THEN None
    ELSE CHOOSE x \in {BrokerOf(url, Credentials(rest), group) :
                        url \in {parse_url_with_default(u.s)},
                        group \in {MessageGroup(rest)}} : TRUE

\* Broker::deserialize
Broker(v) ==
    IF v.t # "obj" THEN None
    ELSE IF Cardinality((DOMAIN v.f) \cap UrlKeys) # 1 THEN None
    ELSE BrokerFields(v.f[CHOOSE x \in (DOMAIN v.f) \cap UrlKeys : TRUE], Without(v.f, UrlKeys))

\* PublishRequest, once its brokers are deserialized.
RequestOf(variant, brokers) ==
    IF brokers.some THEN Some([variant |-> variant, brokers |-> brokers.v]) ELSE None

\* The values of the options of a sequence that are not None.
IsSomeOption(o) == o.some
ValuesOf(os) == [j \in DOMAIN os |-> os[j].v]
SkipNone(os) == ValuesOf(SelectSeq(os, IsSomeOption))

\* PublishRequest with the Broker-Targets that do not parse left out.
PublishRequest_SkipInvalid(v) ==
    IF v.t = "obj" THEN RequestOf("Single", AllSome(<<Broker(v)>>))
    ELSE IF v.t = "arr"
         THEN RequestOf("Multiple", Some(SkipNone([j \in 1..Len(v.a) |-> Broker(v.a[j])])))
    ELSE None

\* PublishRequest::deserialize (untagged): Single, then Multiple.
PublishRequest(v) ==
    IF v.t = "obj" THEN RequestOf("Single", AllSome(<<Broker(v)>>))
    ELSE IF v.t = "arr"
         THEN RequestOf("Multiple", AllSome([j \in 1..Len(v.a) |-> Broker(v.a[j])]))
    ELSE None

\* ---------------------------------------------------------------- errors

BAD_REQUEST == 400
BAD_GATEWAY == 502
GATEWAY_TIMEOUT == 504
PAYLOAD_TOO_LARGE == 413
OK == 200
INTERNAL_SERVER_ERROR == 500

\* The variants of Error.
ErrorKinds ==
    {"ClientInformation", "BrokerConnection", "Subscription", "PublishTimeout",
     "MessageReception", "Payload", "Publish", "Disconnect", "Header", "BrokerUrl",
     "JsonFormat", "BodySize", "Topic"}

\* status_code with the timeout counted among the upstream failures.
status_code_TimeoutAsGateway(e) ==
    IF e \in {"ClientInformation", "Payload", "Header", "BrokerUrl", "JsonFormat", "Topic"}
    THEN BAD_REQUEST
    ELSE IF e = "BodySize" THEN PAYLOAD_TOO_LARGE
    ELSE BAD_GATEWAY

\* Error::status_code
status_code(e) ==
    CASE e = "ClientInformation" -> BAD_REQUEST
      [] e = "BrokerConnection" -> BAD_GATEWAY
      [] e = "Subscription" -> BAD_GATEWAY
      [] e = "PublishTimeout" -> GATEWAY_TIMEOUT
      [] e = "MessageReception" -> BAD_GATEWAY
      [] e = "Payload" -> BAD_REQUEST
      [] e = "Publish" -> BAD_GATEWAY
      [] e = "Disconnect" -> BAD_GATEWAY
      [] e = "Header" -> BAD_REQUEST
      [] e = "BrokerUrl" -> BAD_REQUEST
      [] e = "JsonFormat" -> BAD_REQUEST
      [] e = "BodySize" -> PAYLOAD_TOO_LARGE
      [] e = "Topic" -> BAD_REQUEST

\* Error's Display text (#[error("...")]).
to_string(e) ==
    CASE e = "ClientInformation" -> "invalid mqtt client information"
      [] e = "BrokerConnection" -> "broker connection failed"
      [] e = "Subscription" -> "topic subscription failed"
      [] e = "PublishTimeout" -> "no message received before timeout"
      [] e = "MessageReception" -> "message reception failed"
      [] e = "Payload" -> "invalid message payload"
      [] e = "Publish" -> "publish failed"
      [] e = "Disconnect" -> "disconnection failure"
      [] e = "Header" -> "missing or invalid header"
      [] e = "BrokerUrl" -> "invalid broker url"
      [] e = "JsonFormat" -> "invalid json format or payload too large"
      [] e = "BodySize" -> "body too large"
      [] e = "Topic" -> "invalid topic path"

\* A response: the status, the Error it renders ("" for none), the headers
\* the handler sets and the body.
Response(status, kind, headers, body) ==
    [status |-> status, kind |-> kind, headers |-> headers, body |-> body]

\* impl IntoResponse for Error
ErrorResponse(e) == Response(status_code(e), e, <<>>, [text |-> to_string(e)])

\* The rejection of ConnectInfo and Topic: a bare status.
StatusResponse(status) == Response(status, "", <<>>, [bytes |-> <<>>])

\* ------------------------------------------------------------ extractors

MAX_PAYLOAD_SIZE == 16777216

\* HeaderValue::to_str: a header value is text when it is visible ASCII.
IsVisibleAscii(s) == \A j \in 1..Len(s) : (s[j] >= 32 /\ s[j] < 127) \/ s[j] = 9

\* header_str for X-Broker, whose value arrives as raw text.
BrokerHeader(h) ==
    IF h.broker.some /\ IsVisibleAscii(h.broker.v) THEN h.broker ELSE None

\* str::trim_start_matches('/')
RECURSIVE TrimSlashes(_)
TrimSlashes(s) == IF s # <<>> /\ Head(s) = 47 THEN TrimSlashes(Tail(s)) ELSE s

Ok(x) == [ok |-> TRUE, v |-> x]
Err(r) == [ok |-> FALSE, response |-> r]

\* ConnectInfo, once the X-Broker header is parsed.
ConnectInfoOf(h, url) ==
    IF ~url.ok THEN Err(StatusResponse(BAD_REQUEST))
    ELSE Ok([broker |-> url.url,
             credentials |-> IF h.username.some /\ h.password.some
                             THEN Some([username |-> h.username.v, password |-> h.password.v])
                             ELSE None])

\* ConnectInfo::from_request
ConnectInfo(h) ==
    IF ~BrokerHeader(h).some THEN Err(StatusResponse(BAD_REQUEST))
    ELSE CHOOSE x \in {ConnectInfoOf(h, url) :
                        url \in {parse_url_with_default(BrokerHeader(h).v)}} : TRUE

\* Topic with the path as it is.
Topic_Untrimmed(h) == h.path

\* Topic::from_request
Topic(h) == TrimSlashes(h.path)

\* ContentLengthLimit<_, MAX_PAYLOAD_SIZE>: the Content-Length header must
\* be present on a POST and at most the limit.
ContentLengthLimit(h) == h.contentLength.some /\ h.contentLength.v <= MAX_PAYLOAD_SIZE

\* The Json<PublishRequest> extractor's result as the handler's argument.
JsonMode(parsed) == IF parsed.some THEN Ok(parsed.v) ELSE Err(ErrorResponse("JsonFormat"))

\* The header mode of from_request, c being ConnectInfo::from_request's result.
HeaderMode(h, c) ==
    IF ~c.ok THEN c
    ELSE IF ~ContentLengthLimit(h) THEN Err(ErrorResponse("BodySize"))
    ELSE Ok([variant |-> "Single",
             brokers |-> <<[url |-> c.v.broker,
                            credentials |-> c.v.credentials,
                            messages |-> [variant |-> "Flat",
                                          list |-> <<[topic |-> Topic(h),
                                                      payload |-> Some([kind |-> "Raw",
                                                                        v |-> h.body.bytes]),
                                                      qos |-> QOS_2]>>]]>>])

\* PublishRequest::from_request
from_request(h) ==
    IF h.contentType = Some("application/json")
    THEN IF ~ContentLengthLimit(h) \/ ~h.body.json.some THEN Err(ErrorResponse("JsonFormat"))
         ELSE CHOOSE x \in {JsonMode(parsed) :
                             parsed \in {PublishRequest(h.body.json.v)}} : TRUE
    ELSE CHOOSE x \in {HeaderMode(h, c) : c \in {ConnectInfo(h)}} : TRUE

\* ----------------------------------------------------------------- state

VARIABLES
    http,      \* the HTTP request being served
    pc,        \* where its handler stands
    req,       \* publish: the Broker-Targets left by the extractor, in order
    info,      \* subscribe: the ConnectInfo and the topic
    k,         \* publish: the target being processed (1-based)
    i,         \* publish: the message of target k being processed (1-based)
    trace,     \* what the handler did so far, in order
    message,   \* subscribe: the message taken from the stream
    response,  \* the response, once the handler returned
    client,    \* the handler's variable `client`: the instance it holds (0: none)
    calls,     \* for each step of trace, the client instance it was made on (0: none)
    made,      \* the client instances created in the process so far
    peer       \* the variables of a second request in flight, while it is suspended

vars == <<http, pc, req, info, k, i, trace, message, response, client, calls, made, peer>>

\* One step of a handler: a call on the broker client of target `target`
\* ("create", "connect", "publish", "subscribe", "receive", "disconnect") or
\* the resolution of a payload ("resolve", which calls nothing).
Event(op, target, index, ok, arg) ==
    [op |-> op, target |-> target, index |-> index, ok |-> ok, arg |-> arg]

\* The calls made on broker clients.
IsClientOp(e) == e.op # "resolve"
ClientOps == SelectSeq(trace, IsClientOp)

\* ---------------------------------------------------------------- inputs

TextDoor == <<100, 111, 111, 114>>
TextOpen == <<111, 112, 101, 110>>
TextHost == <<98, 46, 99>>
TextUnknown == <<117, 110, 107, 110, 111, 119, 110>>
TextAAEC == <<65, 65, 69, 67>>
TextBang == <<33>>
TextCafe == <<99, 97, 102, 233>>
TextStringCapital == <<83, 116, 114, 105, 110, 103>>

SeqsUpTo(S, n) == UNION {[1..m -> S] : m \in 0..n}

\* A key that may be absent.
Opt(key, values) == {<<>>} \cup {key :> v : v \in values}

\* Messages of the session family: one whose payload decodes, one whose
\* payload does not.
SessionMessages ==
    {JObj([topic |-> JStr(TextDoor), payloadType |-> JStr(TagBase64), payload |-> JStr(p)]) :
        p \in {TextAAEC, TextBang}}

\* Documents of the session family: up to MaxTargets targets of up to
\* MaxMsgs messages each.
SessionDocs ==
    {JArr(bs) : bs \in SeqsUpTo(
        {JObj([host |-> JStr(TextHost), messages |-> JArr(ms)]) :
            ms \in SeqsUpTo(SessionMessages, MaxMsgs)}, MaxTargets)}

\* Documents of one flat message: every payload type against every payload.
PayloadTypes ==
    {JStr(TagString), JStr(TagJson), JStr(TagBase64), JStr(TagRaw), JStr(TextUnknown),
     JStr(TextStringCapital), JNum(1)}
Payloads ==
    {JStr(TextOpen), JStr(TextAAEC), JStr(TextBang), JStr(TextCafe), JNum(5), JNull,
     JObj([door |-> JNum(2), open |-> JBool(TRUE)]), JArr(<<JNum(0), JNum(1), JNum(2)>>)}
MessageDocs ==
    {JObj(("topic" :> JStr(TextDoor)) @@ t @@ p @@ q) :
        t \in Opt("payloadType", PayloadTypes),
        p \in Opt("payload", Payloads),
        q \in Opt("qos", {JNum(0), JNum(3)})}
FlatDocs ==
    {JObj(("host" :> JStr(TextHost)) @@ d.f) : d \in MessageDocs}

\* Documents of the shape family: one Broker-Target whose messages come in
\* each shape of MessageGroup, under each of the keys message and messages.
HostKey == "host" :> JStr(TextHost)
FlatShape(m) == JObj(HostKey @@ m)
WrappedShape(key, m) == JObj(HostKey @@ (key :> JObj(m)))
ListShape(key, ms) == JObj(HostKey @@ (key :> JArr(ms)))

TopicOnly == "topic" :> JStr(TextDoor)
ShapeMessages ==
    {TopicOnly,
     TopicOnly @@ ("payload" :> JStr(TextCafe)),
     TopicOnly @@ ("qos" :> JNum(0)),
     TopicOnly @@ ("qos" :> JNum(3)),
     "payload" :> JStr(TextOpen)}
ShapeDocs ==
    UNION {{FlatShape(m), WrappedShape("message", m), WrappedShape("messages", m),
            ListShape("messages", <<JObj(m)>>), ListShape("message", <<JObj(m)>>),
            ListShape("message", <<JObj(m), JObj(TopicOnly)>>)} : m \in ShapeMessages}
    \cup {JObj(HostKey @@ ("topic" :> JStr(TextOpen)) @@ ("message" :> JObj(TopicOnly))),
          JObj(HostKey @@ ("message" :> JObj(TopicOnly))
               @@ ("messages" :> JArr(<<JObj("topic" :> JStr(TextOpen))>>)))}

\* Documents of the qos family: two messages, each with any qos or none.
QosValues == {JNum(0 - 1), JNum(0), JNum(1), JNum(2), JNum(3)}
QosDocs ==
    {ListShape("messages", <<JObj(TopicOnly @@ a), JObj(TopicOnly @@ b)>>) :
        a \in Opt("qos", QosValues), b \in Opt("qos", QosValues)}

\* Documents of the credentials family: a username, a password, both or none.
TextUser == <<117, 115, 101, 114, 95, 49>>
TextPass == <<113, 119, 101, 114, 116, 121>>
CredentialDocs ==
    {FlatShape(TopicOnly @@ u @@ p) :
        u \in Opt("username", {JStr(TextUser)}), p \in Opt("password", {JStr(TextPass)})}

\* Documents of the violation family: a well-formed Broker-Target followed
\* by one that violates the schema (not an object, no URL, no topic, a qos
\* out of range, a URL that does not parse), and documents of no shape.
GoodTarget == FlatShape(TopicOnly)
BadTargets ==
    {JNum(5),
     JObj(TopicOnly),
     JObj(HostKey),
     FlatShape(TopicOnly @@ ("qos" :> JNum(3))),
     JObj(("host" :> JStr(<<98, 32, 99>>)) @@ TopicOnly),
     JObj(("host" :> JNum(5)) @@ TopicOnly),
     ListShape("messages", <<JObj(TopicOnly), JNum(5)>>)}
ViolationDocs ==
    {JArr(<<GoodTarget, b>>) : b \in BadTargets} \cup {JNum(5), JStr(TextDoor), JNull}

\* Documents of the URL family: one message for a broker given as b.c,
\* B.c, door, 10.0.0.1, tcp://b.c, ws://b.c, WS://B.c, mqtt://b.c:1883,
\* b.c:1883, "b c", ws:// and the empty string.
UrlInputs ==
    {TextHost, <<66, 46, 99>>, TextDoor, <<49, 48, 46, 48, 46, 48, 46, 49>>,
     TcpPrefix \o TextHost,
     <<119, 115, 58, 47, 47>> \o TextHost,
     <<87, 83, 58, 47, 47, 66, 46, 99>>,
     <<109, 113, 116, 116, 58, 47, 47>> \o TextHost \o <<58, 49, 56, 56, 51>>,
     TextHost \o <<58, 49, 56, 56, 51>>,
     <<98, 32, 99>>, <<119, 115, 58, 47, 47>>, <<>>}
UrlDocs == {JObj(("host" :> JStr(h)) @@ TopicOnly) : h \in UrlInputs}

JsonBody(v) == [bytes |-> Utf8(JsonText(v)), json |-> Some(v)]
RawBody(b) == [bytes |-> b, json |-> None]

Request(method, contentType, broker, user, pass, accept, path, len, body) ==
    [method |-> method, contentType |-> contentType, broker |-> broker,
     username |-> user, password |-> pass, accept |-> accept, path |-> path,
     contentLength |-> len, body |-> body]

\* POST with a JSON document.
JsonRequests ==
    {Request("POST", Some("application/json"), None, None, None, None,
             <<47>>, Some(Len(JsonBody(d).bytes)), JsonBody(d)) :
        d \in SessionDocs \cup FlatDocs \cup ShapeDocs \cup QosDocs \cup CredentialDocs
              \cup ViolationDocs \cup UrlDocs}

\* POST with a JSON content type and a well-formed document announced as
\* larger than MAX_PAYLOAD_SIZE or without a length, or a body that is not
\* JSON text.
UnreadableJsonRequests ==
    {Request("POST", Some("application/json"), None, None, None, None,
             <<47>>, n, JsonBody(GoodTarget)) : n \in {None, Some(MAX_PAYLOAD_SIZE + 1)}}
    \cup {Request("POST", Some("application/json"), None, None, None, None,
                  <<47>>, Some(3), RawBody(<<123, 34, 125>>))}

\* POST in header mode.
HeaderRequests ==
    {Request("POST", ct, b, u, pw, None, path, n, body) :
        ct \in {None, Some("text/plain")},
        b \in {None, Some(TextHost), Some(<<98, 32, 99>>)},
        u \in {None, Some("user_1")},
        pw \in {None, Some("qwerty123")},
        n \in {None, Some(3), Some(MAX_PAYLOAD_SIZE + 1)},
        path \in {<<47>> \o TextDoor, <<47, 47>> \o TextDoor},
        body \in {RawBody(<<0, 1, 2>>), JsonBody(JNum(5))}}

\* GET: a subscription.
SubscribeRequests ==
    {Request("GET", None, b, u, pw, a, path, None, RawBody(<<>>)) :
        b \in {None, Some(TextHost)},
        u \in {None, Some("user_1")},
        pw \in {None, Some("qwerty123")},
        a \in {None, Some("text/plain"), Some("application/json")},
        path \in {<<47>> \o TextDoor, <<47, 47, 35>>}}

Requests ==
    JsonRequests \cup UnreadableJsonRequests \cup HeaderRequests \cup SubscribeRequests

\* What the broker may deliver to a subscription: a topic and a payload.
DeliveredTopics == {TextDoor, TextCafe}
DeliveredPayloads == {<<>>, <<111, 110>>, <<195, 169, 255>>}

\* --------------------------------------------------------------- handlers

NoRequest == [variant |-> "None", brokers |-> <<>>]

\* No second request in flight.
NoPeer == [pc |-> "none"]

Init ==
    /\ http \in Requests
    /\ pc = "extract"
    /\ req = NoRequest
    /\ info = None
    /\ k = 0
    /\ i = 0
    /\ trace = <<>>
    /\ message = None
    /\ response = None
    /\ client = 0
    /\ calls = <<>>
    /\ made = 0
    /\ peer = NoPeer

\* The handler returns r.
Return(r) ==
    /\ response' = Some(r)
    /\ pc' = "done"

\* `?` on an Err(e).
Fail(e) == Return(ErrorResponse(e))

Targets == req.brokers
MessagesOf(n) == Targets[n].messages.list

\* publish_handler up to its first broker call, r being the extractor's result.
PublishStart(r) ==
    IF ~r.ok
    THEN /\ Return(r.response)
         /\ UNCHANGED <<req, k>>
    ELSE /\ req' = r.v
         /\ IF r.v.brokers = <<>>
            THEN /\ Return(Response(OK, "", <<>>, [bytes |-> <<>>]))
                 /\ k' = k
            ELSE /\ pc' = "p_create"
                 /\ k' = 1
                 /\ response' = response

\* axum runs the extractor of publish_handler's argument, then the handler.
ExtractPublish ==
    /\ pc = "extract"
    /\ http.method = "POST"
    /\ \E r \in {from_request(http)} : PublishStart(r)
    /\ UNCHANGED <<http, info, i, trace, message>>

\* AsyncClient::new for target k.
PublishCreate ==
    /\ pc = "p_create"
    /\ \E ok \in BOOLEAN :
        /\ trace' = Append(trace, Event("create", k, 0, ok, [url |-> Targets[k].url]))
        /\ IF ok THEN pc' = "p_connect" /\ response' = response
           ELSE Fail("ClientInformation")
    /\ UNCHANGED <<http, req, info, k, i, message>>

\* PublishConnect with the result of connect dropped instead of returned.
PublishConnect_IgnoreError ==
    /\ pc = "p_connect"
    /\ \E ok \in BOOLEAN :
        trace' = Append(trace, Event("connect", k, 0, ok,
                                     [credentials |-> Targets[k].credentials]))
    /\ pc' = IF MessagesOf(k) = <<>> THEN "p_disconnect" ELSE "p_message"
    /\ i' = 1
    /\ UNCHANGED <<http, req, info, k, message, response>>

\* PublishConnect with a failed connect tried again, up to three times.
PublishConnect_Retry ==
    /\ pc = "p_connect"
    /\ \E ok \in BOOLEAN :
        /\ trace' = Append(trace, Event("connect", k, 0, ok,
                                        [credentials |-> Targets[k].credentials]))
        /\ IF ok
           THEN /\ pc' = IF MessagesOf(k) = <<>> THEN "p_disconnect" ELSE "p_message"
                /\ i' = 1
                /\ response' = response
           ELSE IF Len(trace) < 3
           THEN /\ pc' = pc
                /\ i' = i
                /\ response' = response
           ELSE /\ Fail("BrokerConnection")
                /\ i' = i
    /\ UNCHANGED <<http, req, info, k, message>>

\* client.connect(opts) for target k.
PublishConnect ==
    /\ pc = "p_connect"
    /\ \E ok \in BOOLEAN :
        /\ trace' = Append(trace, Event("connect", k, 0, ok,
                                        [credentials |-> Targets[k].credentials]))
        /\ IF ok
           THEN /\ pc' = IF MessagesOf(k) = <<>> THEN "p_disconnect" ELSE "p_message"
                /\ i' = 1
                /\ response' = response
           ELSE /\ Fail("BrokerConnection")
                /\ i' = i
    /\ UNCHANGED <<http, req, info, k, message>>

\* PublishResolved with a message whose payload does not resolve skipped.
PublishResolved_SkipInvalid(m, bytes) ==
    /\ \E ok \in BOOLEAN :
        /\ trace' = IF bytes.some
                    THEN trace \o <<Event("resolve", k, i, TRUE, [bytes |-> bytes]),
                                    Event("publish", k, i, ok,
                                          [topic |-> m.topic, bytes |-> bytes.v, qos |-> m.qos])>>
                    ELSE Append(trace, Event("resolve", k, i, FALSE, [bytes |-> bytes]))
        /\ IF ok \/ ~bytes.some
           THEN /\ i' = i + 1
                /\ pc' = IF i = Len(MessagesOf(k)) THEN "p_disconnect" ELSE "p_message"
                /\ response' = response
           ELSE /\ Fail("Publish")
                /\ i' = i

\* One turn of the message loop on message m, bytes being m.payload():
\* ok_or(Error::Payload)?, then client.publish(msg).
PublishResolved(m, bytes) ==
    IF ~bytes.some
    THEN /\ trace' = Append(trace, Event("resolve", k, i, FALSE, [bytes |-> bytes]))
         /\ Fail("Payload")
         /\ i' = i
    ELSE \E ok \in BOOLEAN :
         /\ trace' = trace \o <<Event("resolve", k, i, TRUE, [bytes |-> bytes]),
                                Event("publish", k, i, ok,
                                      [topic |-> m.topic, bytes |-> bytes.v, qos |-> m.qos])>>
         /\ IF ok
            THEN /\ i' = i + 1
                 /\ pc' = IF i = Len(MessagesOf(k)) THEN "p_disconnect" ELSE "p_message"
                 /\ response' = response
            ELSE /\ Fail("Publish")
                 /\ i' = i

PublishMessage ==
    /\ pc = "p_message"
    /\ PublishResolved(MessagesOf(k)[i], payload(MessagesOf(k)[i]))
    /\ UNCHANGED <<http, req, info, k, message>>

\* PublishDisconnect with the Ok(200) inside the loop over the targets.
PublishDisconnect_ReturnInLoop ==
    /\ pc = "p_disconnect"
    /\ \E ok \in BOOLEAN :
        /\ trace' = Append(trace, Event("disconnect", k, 0, ok, [opts |-> None]))
        /\ IF ~ok THEN Fail("Disconnect")
           ELSE Return(Response(OK, "", <<>>, [bytes |-> <<>>]))
    /\ UNCHANGED <<http, req, info, k, i, message>>

\* client.disconnect(None) for target k, then the next target or Ok(200).
PublishDisconnect ==
    /\ pc = "p_disconnect"
    /\ \E ok \in BOOLEAN :
        /\ trace' = Append(trace, Event("disconnect", k, 0, ok, [opts |-> None]))
        /\ IF ~ok
           THEN /\ Fail("Disconnect")
                /\ k' = k
           ELSE IF k = Len(Targets)
           THEN /\ Return(Response(OK, "", <<>>, [bytes |-> <<>>]))
                /\ k' = k
           ELSE /\ k' = k + 1
                /\ pc' = "p_create"
                /\ response' = response
    /\ UNCHANGED <<http, req, info, i, message>>

\* Duration::from_secs(5 * 60)
TimeoutSecs == 300

\* subscribe_handler up to its first broker call, c being the result of
\* ConnectInfo::from_request.
SubscribeStart(c) ==
    IF ~c.ok
    THEN /\ Return(c.response)
         /\ info' = info
    ELSE /\ info' = Some([broker |-> c.v.broker, credentials |-> c.v.credentials,
                          topic |-> Topic(http)])
         /\ pc' = "s_create"
         /\ response' = response

\* axum runs the extractors of subscribe_handler's arguments (ConnectInfo,
\* Topic, HeaderMap), then the handler.
ExtractSubscribe ==
    /\ pc = "extract"
    /\ http.method = "GET"
    /\ \E c \in {ConnectInfo(http)} : SubscribeStart(c)
    /\ UNCHANGED <<http, req, k, i, trace, message>>

\* AsyncClient::new, then client.get_stream(1), which calls nothing.
SubscribeCreate ==
    /\ pc = "s_create"
    /\ \E ok \in BOOLEAN :
        /\ trace' = Append(trace, Event("create", 1, 0, ok, [url |-> info.v.broker]))
        /\ IF ok THEN pc' = "s_connect" /\ response' = response
           ELSE Fail("ClientInformation")
    /\ UNCHANGED <<http, req, info, k, i, message>>

\* client.connect(opts)
SubscribeConnect ==
    /\ pc = "s_connect"
    /\ \E ok \in BOOLEAN :
        /\ trace' = Append(trace, Event("connect", 1, 0, ok,
                                        [credentials |-> info.v.credentials]))
        /\ IF ok THEN pc' = "s_subscribe" /\ response' = response
           ELSE Fail("BrokerConnection")
    /\ UNCHANGED <<http, req, info, k, i, message>>

\* SubscribeTopic with the error of the connect step.
SubscribeTopic_ConnectError ==
    /\ pc = "s_subscribe"
    /\ \E ok \in BOOLEAN :
        /\ trace' = Append(trace, Event("subscribe", 1, 0, ok,
                                        [topic |-> info.v.topic, qos |-> QOS_2]))
        /\ IF ok THEN pc' = "s_await" /\ response' = response
           ELSE Fail("BrokerConnection")
    /\ UNCHANGED <<http, req, info, k, i, message>>

\* client.subscribe(topic, QOS_2)
SubscribeTopic ==
    /\ pc = "s_subscribe"
    /\ \E ok \in BOOLEAN :
        /\ trace' = Append(trace, Event("subscribe", 1, 0, ok,
                                        [topic |-> info.v.topic, qos |-> QOS_2]))
        /\ IF ok THEN pc' = "s_await" /\ response' = response
           ELSE Fail("Subscription")
    /\ UNCHANGED <<http, req, info, k, i, message>>

\* AwaitMessage in a loop over the stream.
AwaitMessage_Loop ==
    /\ pc = "s_await"
    /\ \E t \in DeliveredTopics, p \in DeliveredPayloads, w \in {0, TimeoutSecs - 1} :
        /\ trace' = Append(trace, Event("receive", 1, 0, TRUE,
                                        [outcome |-> "message", waited |-> w]))
        /\ message' = Some([topic |-> t, payload |-> p])
    /\ pc' \in {"s_await", "s_disconnect"}
    /\ Len(trace) < 6
    /\ UNCHANGED <<http, req, info, k, i, response>>

\* The stream yields a message before the deadline.
AwaitMessage ==
    /\ pc = "s_await"
    /\ \E t \in DeliveredTopics, p \in DeliveredPayloads, w \in {0, TimeoutSecs - 1} :
        /\ trace' = Append(trace, Event("receive", 1, 0, TRUE,
                                        [outcome |-> "message", waited |-> w]))
        /\ message' = Some([topic |-> t, payload |-> p])
    /\ pc' = "s_disconnect"
    /\ UNCHANGED <<http, req, info, k, i, response>>

\* The stream ends (next() is None) or reports the connection lost (an
\* item that is None) before the deadline: flatten() leaves None.
AwaitClosed ==
    /\ pc = "s_await"
    /\ \E o \in {"closed", "lost"}, w \in {0, TimeoutSecs - 1} :
        trace' = Append(trace, Event("receive", 1, 0, FALSE, [outcome |-> o, waited |-> w]))
    /\ Fail("MessageReception")
    /\ UNCHANGED <<http, req, info, k, i, message>>

\* AwaitTimeout with the client disconnected before the error is returned.
AwaitTimeout_ThenDisconnect ==
    /\ pc = "s_await"
    /\ \E ok \in BOOLEAN :
        trace' = trace \o <<Event("receive", 1, 0, FALSE,
                                  [outcome |-> "timeout", waited |-> TimeoutSecs]),
                            Event("disconnect", 1, 0, ok, [opts |-> None])>>
    /\ Fail("PublishTimeout")
    /\ UNCHANGED <<http, req, info, k, i, message>>

\* The deadline passes first.
AwaitTimeout ==
    /\ pc = "s_await"
    /\ trace' = Append(trace, Event("receive", 1, 0, FALSE,
                                    [outcome |-> "timeout", waited |-> TimeoutSecs]))
    /\ Fail("PublishTimeout")
    /\ UNCHANGED <<http, req, info, k, i, message>>

\* The Ok(...) of subscribe_handler: the topic header and the payload, as
\* text when Accept is exactly text/plain.  A header value must be visible
\* ASCII: into_response answers 500 when the topic is not.
MessageResponse(h, m) ==
    IF ~IsVisibleAscii(m.topic)
    THEN Response(INTERNAL_SERVER_ERROR, "", <<>>, [text |-> "invalid header value"])
    ELSE IF h.accept = Some("text/plain")
    THEN Response(OK, "", [content_type |-> "text/plain", x_topic |-> m.topic],
                  [text |-> Utf8Lossy(m.payload)])
    ELSE Response(OK, "", [content_type |-> "application/octet-stream", x_topic |-> m.topic],
                  [bytes |-> m.payload])

\* client.disconnect(None), then the response.
SubscribeDisconnect ==
    /\ pc = "s_disconnect"
    /\ \E ok \in BOOLEAN :
        /\ trace' = Append(trace, Event("disconnect", 1, 0, ok, [opts |-> None]))
        /\ IF ok THEN Return(MessageResponse(http, message.v))
           ELSE Fail("Disconnect")
    /\ UNCHANGED <<http, req, info, k, i, message>>

\* NewClient with one client instance kept for the whole process.
NewClient_Shared(n) == 1

\* AsyncClient::new returns a new instance: the n + 1st of the process.
NewClient(n) == n + 1

\* The step binds `client`: its one new call is a create that succeeded.
Creates ==
    /\ Len(trace') = Len(trace) + 1
    /\ trace'[Len(trace')].op = "create" /\ trace'[Len(trace')].ok

\* The instance behind `client` after the step, and the instance each call
\* of the step is made on: `client`, a local variable of the handler.
Clients ==
    /\ made' = IF Creates THEN NewClient(made) ELSE made
    /\ client' = IF Creates THEN NewClient(made) ELSE client
    /\ calls' = calls \o [j \in 1..(Len(trace') - Len(trace)) |->
                            IF \/ trace'[Len(trace) + j].op = "resolve"
                               \/ (trace'[Len(trace) + j].op = "create"
                                   /\ ~trace'[Len(trace) + j].ok)
                            THEN 0 ELSE client']

\* A step of the running handler: the suspended request is not touched.
Running == Clients /\ peer' = peer

Next ==
    \/ ExtractPublish /\ Running
    \/ PublishCreate /\ Running
    \/ PublishConnect /\ Running
    \/ PublishMessage /\ Running
    \/ PublishDisconnect /\ Running
    \/ ExtractSubscribe /\ Running
    \/ SubscribeCreate /\ Running
    \/ SubscribeConnect /\ Running
    \/ SubscribeTopic /\ Running
    \/ AwaitMessage /\ Running
    \/ AwaitClosed /\ Running
    \/ AwaitTimeout /\ Running
    \/ SubscribeDisconnect /\ Running

Spec == Init /\ [][Next]_vars

\* Every call on a broker client returns, and the runtime runs the handler
\* on: a step that can be taken is taken.
FairSpec == Spec /\ WF_vars(Next)

\* ------------------------------------------------- two requests in flight

\* The variables of a request, as they are kept while it is suspended.
Session(h, p, r, n, kk, ii, t, m, rs, c, cs) ==
    [http |-> h, pc |-> p, req |-> r, info |-> n, k |-> kk, i |-> ii, trace |-> t,
     message |-> m, response |-> rs, client |-> c, calls |-> cs]

\* The requests of the concurrent family: a document of two targets, a
\* header-mode publish and a subscription.
ConcurrentRequests ==
    {Request("POST", Some("application/json"), None, None, None, None, <<47>>, Some(2),
             JsonBody(JArr(<<GoodTarget, GoodTarget>>))),
     Request("POST", None, Some(TextHost), None, None, None, <<47>> \o TextDoor, Some(3),
             RawBody(<<0, 1, 2>>)),
     Request("GET", None, Some(TextHost), None, None, Some("text/plain"),
             <<47>> \o TextDoor, None, RawBody(<<>>))}

\* Two requests accepted; neither handler has run.
ConcurrentInit ==
    /\ http \in ConcurrentRequests
    /\ pc = "extract"
    /\ req = NoRequest
    /\ info = None
    /\ k = 0
    /\ i = 0
    /\ trace = <<>>
    /\ message = None
    /\ response = None
    /\ client = 0
    /\ calls = <<>>
    /\ made = 0
    /\ peer \in {Session(h, "extract", NoRequest, None, 0, 0, <<>>, None, None, 0, <<>>) :
                    h \in ConcurrentRequests}

\* The runtime (tokio, current_thread) suspends the running handler at an
\* await and resumes the other one; each keeps its own variables.
Switch ==
    /\ peer # NoPeer
    /\ peer' = Session(http, pc, req, info, k, i, trace, message, response, client, calls)
    /\ http' = peer.http
    /\ pc' = peer.pc
    /\ req' = peer.req
    /\ info' = peer.info
    /\ k' = peer.k
    /\ i' = peer.i
    /\ trace' = peer.trace
    /\ message' = peer.message
    /\ response' = peer.response
    /\ client' = peer.client
    /\ calls' = peer.calls
    /\ made' = made

ConcurrentNext ==
    \/ Next
    \/ Switch

ConcurrentSpec == ConcurrentInit /\ [][ConcurrentNext]_vars

\* ---------------------------------------------------------------- claims

Last(q) == q[Len(q)]
IsPublishSession == http.method = "POST" /\ req.variant # "None"
IsSubscribeSession == http.method = "GET" /\ info.some
Failures == {j \in 1..Len(trace) : ~trace[j].ok}

\* C1: in a publish request, a failed step is the last thing the handler
\* does: it has returned, with an error, and no later operation exists on
\* the same or a later target; when the first target's connect fails in a
\* two-target request, nothing is done on the second target and the result
\* is "broker connection failed".
C1_ShortCircuit ==
    IsPublishSession =>
        /\ \A j \in Failures :
            /\ j = Len(trace)
            /\ pc = "done"
            /\ response.some /\ response.v.status # OK
            /\ \A l \in 1..Len(trace) : trace[l].target <= trace[j].target
        /\ \A j \in 1..Len(trace) :
            (Len(Targets) = 2 /\ trace[j].op = "connect" /\ trace[j].target = 1 /\ ~trace[j].ok)
            => /\ \A l \in 1..Len(trace) : trace[l].target # 2
               /\ response = Some(ErrorResponse("BrokerConnection"))
               /\ response.v.body.text = "broker connection failed"

\* C1's case: a two-target request whose first connect failed.
C1_Witness ==
    /\ IsPublishSession /\ Len(Targets) = 2 /\ pc = "done"
    /\ Len(trace) = 2 /\ trace[2].op = "connect" /\ ~trace[2].ok

\* The client calls of target n, in order, as <<op, target, index>>.
CanonicalTarget(n) ==
    <<<<"create", n, 0>>, <<"connect", n, 0>>>>
    \o [j \in 1..Len(req.brokers[n].messages.list) |-> <<"publish", n, j>>]
    \o <<<<"disconnect", n, 0>>>>

RECURSIVE CanonicalFrom(_)
CanonicalFrom(n) ==
    IF n > Len(req.brokers) THEN <<>> ELSE CanonicalTarget(n) \o CanonicalFrom(n + 1)

Canonical == CanonicalFrom(1)
Shapes(q) == [j \in 1..Len(q) |-> <<q[j].op, q[j].target, q[j].index>>]
IsPrefix(p, q) == Len(p) <= Len(q) /\ SubSeq(q, 1, Len(p)) = p

\* C2: the client calls of a publish request are a prefix of create,
\* connect, publish(1..N), disconnect per target in request order; a call
\* is made only after every earlier call succeeded; each publish carries
\* its message's topic and qos; and the handler answers 200 exactly when the
\* whole sequence was performed and succeeded.
C2_Ordering ==
    IsPublishSession =>
        /\ IsPrefix(Shapes(ClientOps), Canonical)
        /\ \A j \in 1..(Len(ClientOps) - 1) : ClientOps[j].ok
        /\ \A j \in 1..Len(ClientOps) :
            ClientOps[j].op = "publish" =>
                LET m == req.brokers[ClientOps[j].target].messages.list[ClientOps[j].index]
                IN  ClientOps[j].arg.topic = m.topic /\ ClientOps[j].arg.qos = m.qos
        /\ pc = "done" =>
            ((response.v.status = OK)
             <=> (Shapes(ClientOps) = Canonical /\ \A j \in 1..Len(ClientOps) : ClientOps[j].ok))

\* C2's case: two targets, the first with two messages, all performed.
C2_Witness ==
    /\ IsPublishSession /\ pc = "done" /\ response.v.status = OK
    /\ Len(Targets) = 2 /\ Len(MessagesOf(1)) = 2
    /\ Len(ClientOps) = 8 + Len(MessagesOf(2))

\* C3: when a handler has returned, every client it connected has had a
\* disconnect call.
C3_TornDown ==
    pc = "done" =>
        \A j \in 1..Len(trace) :
            (trace[j].op = "connect" /\ trace[j].ok)
            => \E l \in (j + 1)..Len(trace) :
                trace[l].op = "disconnect" /\ trace[l].target = trace[j].target

\* The Error a failed step is reported as.
StepKind(e) ==
    CASE e.op = "create" -> "ClientInformation"
      [] e.op = "connect" -> "BrokerConnection"
      [] e.op = "resolve" -> "Payload"
      [] e.op = "publish" -> "Publish"
      [] e.op = "subscribe" -> "Subscription"
      [] e.op = "receive" -> IF e.arg.outcome = "timeout" THEN "PublishTimeout"
                             ELSE "MessageReception"
      [] e.op = "disconnect" -> "Disconnect"

StepKinds ==
    {"ClientInformation", "BrokerConnection", "Payload", "Publish", "Subscription",
     "MessageReception", "Disconnect"}

\* C4: in both sessions at most one step fails, the response is the Error
\* of that step (creation, connect, payload resolution, publish, subscribe,
\* closed stream, disconnect), and a response of one of these kinds is
\* given only when the step of that kind failed.
C4_ErrorKinds ==
    /\ Cardinality(Failures) <= 1
    /\ \A j \in Failures :
        /\ response.some
        /\ response.v.kind = StepKind(trace[j])
        /\ response.v.body = [text |-> to_string(StepKind(trace[j]))]
    /\ (response.some /\ response.v.kind \in StepKinds)
        => \E j \in Failures : j = Len(trace) /\ StepKind(trace[j]) = response.v.kind

\* C4's case: the stream of a subscription closed before any message.
C4_Witness ==
    /\ IsSubscribeSession /\ pc = "done" /\ Len(trace) = 4
    /\ trace[4].op = "receive" /\ trace[4].arg.outcome = "closed"
    /\ response.v.kind = "MessageReception"

\* The messages published before step j, as <<target, index>>.
PublishedBefore(j) ==
    {<<trace[l].target, trace[l].index>> :
        l \in {x \in 1..(j - 1) : trace[x].op = "publish" /\ trace[x].ok}}

\* The messages that precede message n of target t in the request.
Preceding(t, n) ==
    {<<a, b>> \in (1..t) \X (1..MaxMsgs + 1) :
        /\ b <= Len(req.brokers[a].messages.list)
        /\ a < t \/ b < n}

\* C5: a payload is resolved when exactly the messages before it, of its
\* target and of the earlier targets, have been published, once each; a
\* resolved payload is what the next call publishes; a payload that does
\* not resolve ends the request with "invalid message payload", its message
\* is never published and nothing is done after it.
C5_PayloadPerMessage ==
    IsPublishSession =>
        \A j \in 1..Len(trace) :
            trace[j].op = "resolve" =>
                /\ PublishedBefore(j) = Preceding(trace[j].target, trace[j].index)
                /\ Cardinality({x \in 1..(j - 1) : trace[x].op = "publish"})
                       = Cardinality(Preceding(trace[j].target, trace[j].index))
                /\ trace[j].ok =>
                    /\ j < Len(trace)
                    /\ trace[j + 1].op = "publish"
                    /\ trace[j + 1].target = trace[j].target
                    /\ trace[j + 1].index = trace[j].index
                    /\ trace[j + 1].arg.bytes = trace[j].arg.bytes.v
                /\ ~trace[j].ok =>
                    /\ j = Len(trace)
                    /\ response = Some(ErrorResponse("Payload"))
                    /\ response.v.body.text = "invalid message payload"

\* C5's case: a payload that does not resolve, after a message of the same
\* target and one of an earlier target were published.
C5_Witness ==
    /\ IsPublishSession /\ pc = "done" /\ trace # <<>>
    /\ Last(trace).op = "resolve" /\ ~Last(trace).ok
    /\ Last(trace).target = 2 /\ Last(trace).index = 2

\* C6: when the wait of a subscription ends by the deadline, the deadline
\* is five minutes, the response is "no message received before timeout"
\* with status 504, and it has no topic header.
C6_SubscribeTimeout ==
    \A j \in 1..Len(trace) :
        (trace[j].op = "receive" /\ trace[j].arg.outcome = "timeout") =>
            /\ trace[j].arg.waited = 5 * 60
            /\ trace[j - 1].op = "subscribe" /\ trace[j - 1].ok
            /\ response.some
            /\ response.v.kind = "PublishTimeout"
            /\ response.v.body = [text |-> "no message received before timeout"]
            /\ response.v.status = 504
            /\ "x_topic" \notin DOMAIN response.v.headers
            /\ ~message.some

\* C6's case: the deadline passed.
C6_Witness ==
    /\ IsSubscribeSession /\ pc = "done" /\ Len(trace) = 4
    /\ trace[4].arg.outcome = "timeout"

\* C7: when a subscription has taken a message and the handler has
\* returned, the response has the topic header, set to the message's topic.
C7_TopicHeader ==
    (IsSubscribeSession /\ message.some /\ pc = "done") =>
        /\ "x_topic" \in DOMAIN response.v.headers
        /\ response.v.headers.x_topic = message.v.topic

SubscribeCanonical == <<"create", "connect", "subscribe", "receive", "disconnect">>
CountOps(op) == Cardinality({j \in 1..Len(trace) : trace[j].op = op})

\* C8: the client calls of a subscription are a prefix of create, connect,
\* subscribe, receive, disconnect, each made after the one before
\* succeeded; the one subscribe call is for the topic of the path at QoS 2;
\* once a message is taken the session does not wait again.
C8_SubscribeOneShot ==
    IsSubscribeSession =>
        /\ IsPrefix([j \in 1..Len(trace) |-> trace[j].op], SubscribeCanonical)
        /\ \A j \in 1..(Len(trace) - 1) : trace[j].ok
        /\ \A j \in 1..Len(trace) :
            trace[j].op = "subscribe" =>
                /\ trace[j].arg = [topic |-> TrimSlashes(http.path), qos |-> 2]
                /\ http.path = <<47>> \o TextDoor => trace[j].arg.topic = TextDoor
        /\ pc \in {"s_await", "s_disconnect"} => CountOps("subscribe") = 1
        /\ message.some => CountOps("receive") = 1 /\ pc \in {"s_disconnect", "done"}
        /\ CountOps("receive") = 1 => pc # "s_await"

\* C8's case: a subscription that ran to its end.
C8_Witness ==
    /\ IsSubscribeSession /\ pc = "done" /\ Len(trace) = 5
    /\ response.v.status = OK

\* The document of a JSON request is one flat message whose payloadType is
\* none of string, json, base64, raw.
UnknownTagDocument ==
    /\ http.method = "POST"
    /\ http.contentType = Some("application/json")
    /\ http.body.json.some
    /\ http.contentLength.some /\ http.contentLength.v <= 16777216
    /\ http.body.json.v.t = "obj"
    /\ "payloadType" \in DOMAIN http.body.json.v.f
    /\ LET tag == http.body.json.v.f["payloadType"]
       IN  tag.t = "str" => tag.s \notin {TagString, TagJson, TagBase64, TagRaw}

\* C9: the message of a document with an unknown payloadType is never
\* published, and the request of that document fails.
C9_UnknownTagRejected ==
    UnknownTagDocument =>
        /\ \A j \in 1..Len(trace) : trace[j].op # "publish"
        /\ pc = "done" => response.v.status # OK

\* C10: a document whose message has an unknown payloadType and a string
\* payload (and no invalid qos) parses to one message, and what is resolved
\* and published for it is the UTF-8 encoding of the string.
C10_UnknownTagAsString ==
    (/\ UnknownTagDocument /\ pc # "extract"
     /\ "payload" \in DOMAIN http.body.json.v.f
     /\ http.body.json.v.f["payload"].t = "str"
     /\ "qos" \in DOMAIN http.body.json.v.f => http.body.json.v.f["qos"].n \in 0..2)
    => LET text == http.body.json.v.f["payload"].s
       IN  /\ req.variant = "Single"
           /\ Len(Targets) = 1 /\ Len(MessagesOf(1)) = 1
           /\ \A j \in 1..Len(trace) :
               /\ trace[j].op = "resolve" => trace[j].arg.bytes = Some(Utf8(text))
               /\ trace[j].op = "publish" =>
                   /\ trace[j].arg.bytes = Utf8(text)
                   /\ text = TextCafe => trace[j].arg.bytes = <<99, 97, 102, 195, 169>>
           /\ pc = "done" => Len(trace) >= 1

\* C10's case: the string of such a document was published.
C10_Witness ==
    /\ UnknownTagDocument /\ pc = "done" /\ response.v.status = OK
    /\ "payload" \in DOMAIN http.body.json.v.f
    /\ http.body.json.v.f["payload"] = JStr(TextCafe)
    /\ Len(trace) = 5 /\ trace[4].op = "publish"

\* The body of a JSON request, read within the limit, is a document of one
\* Broker-Target.
IsJsonDocument ==
    /\ http.method = "POST"
    /\ http.contentType = Some("application/json")
    /\ http.contentLength.some /\ http.contentLength.v <= 16777216
    /\ http.body.json.some
    /\ http.body.json.v.t = "obj"
Document == http.body.json.v.f
\* ... for the broker b.c.
IsHostDocument ==
    IsJsonDocument /\ "host" \in DOMAIN Document /\ Document["host"] = JStr(TextHost)

\* The document gives one message in one of the three shapes.
IsFlatDocument ==
    IsHostDocument /\ DOMAIN Document \subseteq {"host", "topic", "payload", "payloadType", "qos"}
IsWrappedDocument ==
    IsHostDocument /\ DOMAIN Document = {"host", "message"} /\ Document["message"].t = "obj"
IsListOfOneDocument ==
    /\ IsHostDocument /\ DOMAIN Document = {"host", "messages"}
    /\ Document["messages"].t = "arr" /\ Len(Document["messages"].a) = 1

\* The fields of that message.
ShapeFields ==
    IF IsWrappedDocument THEN Document["message"].f
    ELSE IF IsListOfOneDocument THEN Document["messages"].a[1].f
    ELSE Without(Document, {"host"})

\* The three parses give the same one message, each under its variant, and
\* the session of the request publishes that message.
ShapesAgree(flat, wrapped, listed) ==
    /\ flat.some = wrapped.some /\ wrapped.some = listed.some
    /\ flat.some <=> req.variant # "None"
    /\ ~flat.some => response = Some(ErrorResponse("JsonFormat")) /\ trace = <<>>
    /\ flat.some =>
        /\ flat.v.variant = "Flat" /\ wrapped.v.variant = "Single"
        /\ listed.v.variant = "Multiple"
        /\ Len(flat.v.list) = 1
        /\ wrapped.v.list = flat.v.list /\ listed.v.list = flat.v.list
        /\ Len(Targets) = 1 /\ MessagesOf(1) = flat.v.list
        /\ Targets[1].messages.variant =
               (IF IsWrappedDocument THEN "Single"
                ELSE IF IsListOfOneDocument THEN "Multiple" ELSE "Flat")
        /\ \A j \in 1..Len(trace) :
            trace[j].op = "publish" =>
                /\ trace[j].index = 1
                /\ trace[j].arg = [topic |-> flat.v.list[1].topic,
                                   bytes |-> payload(flat.v.list[1]).v,
                                   qos |-> flat.v.list[1].qos]
                /\ ShapeFields = TopicOnly =>
                       trace[j].arg = [topic |-> TextDoor, bytes |-> <<>>, qos |-> 2]
        /\ (pc = "done" /\ response.v.status = OK) => CountOps("publish") = 1

\* C11: the flat, the wrapped and the list-of-one shape of a message parse
\* to the same one message (or are all rejected), recorded as Flat, Single
\* and Multiple, and the session publishes that one message; with only a
\* topic it is published at qos 2 with an empty payload.  A document that
\* matches two shapes is taken as the first of flat, wrapped, list.
C11_ShapesEquivalent ==
    /\ (pc # "extract" /\ (IsFlatDocument \/ IsWrappedDocument \/ IsListOfOneDocument))
        => ShapesAgree(MessageGroup(ShapeFields),
                       MessageGroup("message" :> JObj(ShapeFields)),
                       MessageGroup("messages" :> JArr(<<JObj(ShapeFields)>>)))
    /\ (pc # "extract" /\ IsJsonDocument /\ DOMAIN Document = {"host", "topic", "message"})
        => /\ Targets[1].messages.variant = "Flat"
           /\ MessagesOf(1) = <<Message(JObj("topic" :> Document["topic"])).v>>
    /\ (pc # "extract" /\ IsJsonDocument /\ DOMAIN Document = {"host", "message", "messages"})
        => /\ Targets[1].messages.variant = "Single"
           /\ MessagesOf(1) = <<Message(Document["message"]).v>>

\* C11's case: the message of a wrapped document was published.
C11_Witness ==
    /\ IsWrappedDocument /\ ShapeFields = TopicOnly
    /\ pc = "done" /\ response.v.status = OK /\ CountOps("publish") = 1

\* C12: a message object under the key messages is taken like the same
\* object under message, and a list under the key message like the same
\* list under messages.
C12_MutualAlias ==
    /\ (/\ pc # "extract" /\ IsJsonDocument /\ DOMAIN Document = {"host", "messages"}
        /\ Document["messages"].t = "obj" /\ Message(Document["messages"]).some)
        => /\ req.variant = "Single"
           /\ MessagesOf(1) = <<Message(Document["messages"]).v>>
    /\ (/\ pc # "extract" /\ IsJsonDocument /\ DOMAIN Document = {"host", "message"}
        /\ Document["message"].t = "arr" /\ Messages(Document["message"]).some)
        => /\ req.variant = "Single"
           /\ MessagesOf(1) = Messages(Document["message"]).v

\* The document is one Broker-Target with a list of message objects under
\* messages, every qos given being a number.
IsMessageListDocument ==
    /\ IsHostDocument /\ DOMAIN Document = {"host", "messages"}
    /\ Document["messages"].t = "arr"
    /\ \A j \in 1..Len(Document["messages"].a) :
        /\ Document["messages"].a[j].t = "obj"
        /\ "topic" \in DOMAIN Document["messages"].a[j].f
        /\ "qos" \in DOMAIN Document["messages"].a[j].f
            => Document["messages"].a[j].f["qos"].t = "num"
ListedMessage(j) == Document["messages"].a[j].f
QosInRange(m) == "qos" \in DOMAIN m => m["qos"].n \in {0, 1, 2}

\* C13: a document whose messages all have a qos of 0, 1 or 2, or none,
\* parses with each message at its qos, 2 when none is given; a document
\* with a message of any other qos is rejected whole, before any client
\* call; every publish call has a qos of 0, 1 or 2, the one of its message.
C13_QosValidated ==
    /\ \A j \in 1..Len(trace) : trace[j].op = "publish" => trace[j].arg.qos \in {0, 1, 2}
    /\ (IsMessageListDocument /\ pc # "extract") =>
        IF \A j \in 1..Len(Document["messages"].a) : QosInRange(ListedMessage(j))
        THEN /\ req.variant = "Single"
             /\ Len(MessagesOf(1)) = Len(Document["messages"].a)
             /\ \A j \in 1..Len(MessagesOf(1)) :
                 MessagesOf(1)[j].qos = IF "qos" \in DOMAIN ListedMessage(j)
                                        THEN ListedMessage(j)["qos"].n ELSE 2
             /\ \A j \in 1..Len(trace) :
                 trace[j].op = "publish" =>
                     trace[j].arg.qos = MessagesOf(1)[trace[j].index].qos
        ELSE /\ req = NoRequest
             /\ response = Some(ErrorResponse("JsonFormat"))
             /\ response.v.status = 400
             /\ trace = <<>>

\* C13's case: a message of qos 1 and one without qos were published.
C13_Witness ==
    /\ IsMessageListDocument /\ Len(Document["messages"].a) = 2
    /\ ListedMessage(1) = TopicOnly @@ ("qos" :> JNum(1))
    /\ ListedMessage(2) = TopicOnly
    /\ pc = "done" /\ response.v.status = OK /\ CountOps("publish") = 2

\* The document is one flat message with a username, a password, both or
\* none.
IsCredentialDocument ==
    /\ IsHostDocument /\ "topic" \in DOMAIN Document
    /\ DOMAIN Document \subseteq {"host", "topic", "username", "password"}
IsHeaderMode == http.method = "POST" /\ http.contentType # Some("application/json")

\* The credentials the request supplies: both parts, or nothing.
SuppliedCredentials ==
    IF http.method = "POST" /\ http.contentType = Some("application/json")
    THEN IF {"username", "password"} \subseteq DOMAIN Document
         THEN Some([username |-> Document["username"].s, password |-> Document["password"].s])
         ELSE None
    ELSE IF http.username.some /\ http.password.some
         THEN Some([username |-> http.username.v, password |-> http.password.v])
         ELSE None

\* C14: a Broker-Target has credentials exactly when the document, or the
\* headers, give both a username and a password; one without the other is
\* no credentials and never makes the request fail; connect gets the
\* credentials exactly when the target has them.
C14_CredentialsAllOrNothing ==
    /\ (IsCredentialDocument /\ pc # "extract") =>
        /\ req.variant = "Single"
        /\ Targets[1].credentials = SuppliedCredentials
        /\ Targets[1].credentials.some
            <=> ("username" \in DOMAIN Document /\ "password" \in DOMAIN Document)
    /\ (IsHeaderMode /\ pc # "extract") =>
        /\ req.variant # "None"
            <=> (/\ http.broker = Some(TextHost)
                 /\ http.contentLength.some /\ http.contentLength.v <= MAX_PAYLOAD_SIZE)
        /\ req.variant # "None" =>
            /\ Targets[1].credentials = SuppliedCredentials
            /\ Targets[1].credentials.some <=> (http.username.some /\ http.password.some)
    /\ (http.method = "GET" /\ pc # "extract") =>
        /\ info.some <=> http.broker = Some(TextHost)
        /\ info.some =>
            /\ info.v.credentials = SuppliedCredentials
            /\ info.v.credentials.some <=> (http.username.some /\ http.password.some)
    /\ (IsCredentialDocument \/ IsHeaderMode \/ http.method = "GET") =>
        \A j \in 1..Len(trace) :
            trace[j].op = "connect" => trace[j].arg = [credentials |-> SuppliedCredentials]

\* C14's case: a document with a username and no password connected
\* without credentials.
C14_Witness ==
    /\ IsCredentialDocument /\ "username" \in DOMAIN Document
    /\ "password" \notin DOMAIN Document
    /\ Len(trace) >= 2 /\ trace[2].op = "connect" /\ trace[2].ok
    /\ trace[2].arg = [credentials |-> None]

\* The one Broker-Target of a header-mode request: its URL and credentials
\* from the headers, one message at qos 2 whose payload is the body as it
\* is, never the JSON document the body may spell; what is published is
\* that message, under the topic `topic`.
HeaderTarget(topic) ==
    /\ req.variant = "Single" /\ Len(Targets) = 1
    /\ Targets[1].url = TcpPrefix \o http.broker.v
    /\ Targets[1].credentials = SuppliedCredentials
    /\ Len(MessagesOf(1)) = 1
    /\ MessagesOf(1)[1].topic = topic
    /\ MessagesOf(1)[1].qos = 2
    /\ payload(MessagesOf(1)[1]) = Some(http.body.bytes)
    /\ \A j \in 1..Len(trace) :
        /\ trace[j].op = "create" => trace[j].arg = [url |-> TcpPrefix \o http.broker.v]
        /\ trace[j].op = "publish" =>
            trace[j].arg = [topic |-> topic, bytes |-> http.body.bytes, qos |-> 2]
    /\ (pc = "done" /\ response.v.status = OK) => CountOps("publish") = 1

\* C15 as stated: the topic of a header-mode request is its path without
\* its first character, the leading slash.
C15_HeaderModeOneSlash ==
    (IsHeaderMode /\ req.variant # "None") => HeaderTarget(Tail(http.path))

\* C15, amended: the topic of a header-mode request is its path without
\* its leading slashes, all of them; the rest as stated.
C15_HeaderMode ==
    (IsHeaderMode /\ req.variant # "None") =>
        /\ HeaderTarget(TrimSlashes(http.path))
        /\ MessagesOf(1)[1].topic = TextDoor

\* C15's case: a body that is valid JSON was published as it is, under the
\* topic of a path with two leading slashes.
C15_Witness ==
    /\ IsHeaderMode /\ http.path = <<47, 47>> \o TextDoor /\ http.body.json.some
    /\ pc = "done" /\ response.v.status = OK
    /\ Len(trace) = 5 /\ trace[4].op = "publish" /\ trace[4].arg.bytes = <<53>>

\* The request is in structured mode and its document violates the schema
\* in its second Broker-Target, the first being well formed, or is of no
\* shape, or its body cannot be read within the limit.
IsViolatingRequest ==
    /\ http.method = "POST" /\ http.contentType = Some("application/json")
    /\ \/ ~http.contentLength.some
       \/ http.contentLength.v > 16777216
       \/ ~http.body.json.some
       \/ http.body.json.v.t \in {"num", "str", "null"}
       \/ /\ http.body.json.v.t = "arr" /\ Len(http.body.json.v.a) = 2
          /\ http.body.json.v.a[1] = GoodTarget
          /\ http.body.json.v.a[2] \in BadTargets

\* C16: a structured request whose document violates the schema anywhere,
\* or whose body is over the limit, fails with "invalid json format or
\* payload too large", and no client call is made for any of its targets,
\* the well-formed ones before the violation included.
C16_AllOrNothing ==
    IsViolatingRequest =>
        /\ trace = <<>>
        /\ req = NoRequest
        /\ pc \in {"extract", "done"}
        /\ pc = "done" =>
            /\ response = Some(ErrorResponse("JsonFormat"))
            /\ response.v.status = 400
            /\ response.v.body = [text |-> "invalid json format or payload too large"]

\* C16's case: a well-formed target followed by one with a qos of 3.
C16_Witness ==
    /\ IsViolatingRequest /\ pc = "done" /\ http.body.json.some
    /\ http.body.json.v = JArr(<<GoodTarget, FlatShape(TopicOnly @@ ("qos" :> JNum(3)))>>)
    /\ response.v.kind = "JsonFormat"

\* The document is one message for a broker given as a string.
IsUrlDocument ==
    /\ IsJsonDocument /\ DOMAIN Document = {"host", "topic"}
    /\ Document["host"].t = "str"
BrokerInput == Document["host"].s

\* A bare hostname: letters, digits, dots and hyphens, at least one.
IsBareHostname(h) ==
    /\ h # <<>>
    /\ \A j \in 1..Len(h) : IsAlpha(h[j]) \/ IsDigit(h[j]) \/ h[j] \in {45, 46}

\* The length of the explicit scheme of h with its "://", 0 when h has none.
ExplicitScheme(h) ==
    IF \E p \in 2..(Len(h) - 3) :
           /\ SubSeq(h, p, p + 2) = <<58, 47, 47>>
           /\ \A j \in 1..(p - 1) : IsAlpha(h[j])
    THEN 2 + CHOOSE p \in 2..(Len(h) - 3) :
                 /\ SubSeq(h, p, p + 2) = <<58, 47, 47>>
                 /\ \A j \in 1..(p - 1) : IsAlpha(h[j])
    ELSE 0

\* What the session of an accepted URL document does with url, again
\* being the result of normalizing url once more.
UrlUsed(url, again) ==
    /\ req.variant = "Single" /\ Targets[1].url = url
    /\ \A j \in 1..Len(trace) : trace[j].op = "create" => trace[j].arg = [url |-> url]
    /\ again = UrlOk(url)

\* C17: a bare hostname is normalized to tcp://<hostname>; an input with an
\* explicit scheme keeps its scheme (in lower case); an input that does not
\* parse for another reason than its missing scheme is rejected; the
\* normalized URL is what the client is created with, and normalizing it
\* again gives the same URL.
C17_UrlNormalized ==
    (IsUrlDocument /\ pc # "extract") =>
        /\ IsBareHostname(BrokerInput) =>
            /\ Targets # <<>>
            /\ UrlUsed(<<116, 99, 112, 58, 47, 47>> \o BrokerInput,
                       parse_url_with_default(<<116, 99, 112, 58, 47, 47>> \o BrokerInput))
        /\ ExplicitScheme(BrokerInput) > 0 =>
            /\ Targets # <<>>
            /\ SubSeq(Targets[1].url, 1, ExplicitScheme(BrokerInput))
                   = LowerAll(SubSeq(BrokerInput, 1, ExplicitScheme(BrokerInput)))
        /\ Targets # <<>> =>
            UrlUsed(Targets[1].url, parse_url_with_default(Targets[1].url))
        /\ BrokerInput \in {<<98, 32, 99>>, <<119, 115, 58, 47, 47>>} =>
            /\ req = NoRequest /\ trace = <<>>
            /\ response = Some(ErrorResponse("JsonFormat"))

\* C17's case: a client was created for ws://b.c.
C17_Witness ==
    /\ IsUrlDocument /\ BrokerInput = <<119, 115, 58, 47, 47, 98, 46, 99>>
    /\ Len(trace) >= 1 /\ trace[1].op = "create"
    /\ trace[1].arg = [url |-> <<119, 115, 58, 47, 47, 98, 46, 99, 47>>]

\* The messages of target t published before step j.
PublishedOf(t, j) ==
    {trace[x].index : x \in {y \in 1..(j - 1) :
        trace[y].op = "publish" /\ trace[y].ok /\ trace[y].target = t}}

\* C19: a disconnect call is made on a target's client only when every
\* message of the target has been published, and in a subscription only
\* when a message has been received; a failure after the connect (payload
\* resolution, publish, subscribe, deadline, closed stream) ends the session
\* with its error and without a disconnect call on the connected client.
C19_DisconnectOnHappyPath ==
    \A j \in 1..Len(trace) :
        /\ trace[j].op = "disconnect" =>
            /\ \A x \in 1..(j - 1) : trace[x].ok
            /\ IsPublishSession =>
                PublishedOf(trace[j].target, j) = 1..Len(MessagesOf(trace[j].target))
            /\ IsSubscribeSession =>
                /\ trace[j - 1].op = "receive" /\ trace[j - 1].arg.outcome = "message"
                /\ message.some
        /\ (~trace[j].ok /\ trace[j].op \in {"resolve", "publish", "subscribe", "receive"}) =>
            /\ \E x \in 1..(j - 1) :
                trace[x].op = "connect" /\ trace[x].ok /\ trace[x].target = trace[j].target
            /\ \A x \in 1..Len(trace) :
                trace[x].op = "disconnect" => trace[x].target # trace[j].target
            /\ j = Len(trace) /\ pc = "done"
            /\ response = Some(ErrorResponse(StepKind(trace[j])))

\* C19's case: the second target's publish failed after its connect; the
\* only disconnect call is the first target's.
C19_Witness ==
    /\ IsPublishSession /\ pc = "done" /\ trace # <<>>
    /\ Last(trace).op = "publish" /\ ~Last(trace).ok /\ Last(trace).target = 2
    /\ CountOps("disconnect") = 1

\* The client instances a request made calls on.
InstancesOf(cs) == {cs[j] : j \in 1..Len(cs)} \ {0}

\* The calls of trace t are made on own instances: a create that succeeded
\* gives an instance no earlier call of the request was made on, and every
\* other call of a target is made on the instance its create gave.
OwnInstances(t, cs) ==
    /\ Len(cs) = Len(t)
    /\ \A j \in 1..Len(t) :
        /\ (t[j].op = "resolve" \/ (t[j].op = "create" /\ ~t[j].ok)) => cs[j] = 0
        /\ (t[j].op = "create" /\ t[j].ok) =>
            /\ cs[j] # 0
            /\ \A x \in 1..(j - 1) : cs[x] # cs[j]
        /\ t[j].op \in {"connect", "publish", "subscribe", "receive", "disconnect"} =>
            \E x \in 1..(j - 1) :
                /\ t[x].op = "create" /\ t[x].ok /\ t[x].target = t[j].target
                /\ cs[j] = cs[x]

\* C18: with two requests in flight, interleaved at any of their steps, the
\* calls of each are made on the instances it created itself, no instance
\* serves both, and the running request's calls and result are those of a
\* request alone: in canonical order, ended by its first failure, reported
\* as that failure's kind.
C18_RequestIsolation ==
    /\ OwnInstances(trace, calls)
    /\ OwnInstances(peer.trace, peer.calls)
    /\ InstancesOf(calls) \cap InstancesOf(peer.calls) = {}
    /\ InstancesOf(calls) \cup InstancesOf(peer.calls) \subseteq 1..made
    /\ Cardinality(InstancesOf(calls)) + Cardinality(InstancesOf(peer.calls)) = made
    /\ C2_Ordering /\ C8_SubscribeOneShot /\ C4_ErrorKinds /\ C1_ShortCircuit

\* C18's case: two publish requests ran interleaved to their ends, the one
\* on the first and third instance of the process, the other on the second.
C18_Witness ==
    /\ pc = "done" /\ peer.pc = "done"
    /\ response.v.status = OK /\ peer.response.v.status = OK
    /\ InstancesOf(calls) = {1, 3} /\ InstancesOf(peer.calls) = {2}

\* No call is made twice: no two steps are the same operation on the same
\* target and message.
NoRepeat ==
    \A j \in 1..Len(trace) : \A x \in 1..(j - 1) :
        <<trace[j].op, trace[j].target, trace[j].index>>
            # <<trace[x].op, trace[x].target, trace[x].index>>

\* C20: every call returning, a request ends, with success or with one
\* error, and a subscription that waits for a message stops waiting (by a
\* message, the end of the stream or the deadline) and then ends; no call
\* is repeated: at most one create, connect and disconnect per target, one
\* publish per message, and at most one step fails.
C20_Terminates ==
    /\ [](/\ NoRepeat
          /\ Cardinality(Failures) <= 1
          /\ Failures # {} => (pc = "done" /\ response.v.status # OK)
          /\ pc = "done" <=> response.some
          /\ IsPublishSession =>
                Len(ClientOps) <= Len(Canonical))
    /\ <>(pc = "done")
    /\ (pc = "s_await") ~> (pc \in {"s_disconnect", "done"})
    /\ (pc = "s_disconnect") ~> (pc = "done")
    /\ [][pc = "done" => pc' = "done"]_vars

\* C20's case: a subscription took a message, its disconnect failed and
\* the request ended with that one error.
C20_Witness ==
    /\ IsSubscribeSession /\ pc = "done" /\ Len(trace) = 5
    /\ trace[4].op = "receive" /\ trace[4].ok
    /\ ~trace[5].ok /\ response.v.kind = "Disconnect"

====
